---- MODULE Spec2Model ----
(***************************************************************************)
(* Option resolution of the swc command-line front-end                     *)
(* (packages/cli/src/swc/options.ts): parserArgs with its helpers          *)
(* loadCLIConfigFile, verifyArgsErrors and unstringify.                    *)
(*                                                                         *)
(* JavaScript strings are sequences of one-character strings, so that the  *)
(* string conversions of the code (the camel-casing regular expression,    *)
(* parseFloat, JSON.parse, indexOf and split) are computed character by    *)
(* character.  JavaScript values are tagged records.                       *)
(***************************************************************************)
EXTENDS Integers, Sequences, FiniteSets, TLC

(***************************************************************************)
(* Bounds of the explored inputs.                                          *)
(***************************************************************************)
MaxFiles == 1
MaxConfigKeys == 1
MaxDirectives == 2
MaxKeyLen == 3

(***************************************************************************)
(* JavaScript values.                                                      *)
(***************************************************************************)
Undef == [t |-> "undefined"]
Null == [t |-> "null"]
Bool(b) == [t |-> "boolean", b |-> b]
Str(s) == [t |-> "string", s |-> s]
Num(neg, int, frac) == [t |-> "number", nan |-> FALSE, neg |-> neg, int |-> int, frac |-> frac]
NaN == [t |-> "number", nan |-> TRUE, neg |-> FALSE, int |-> 0, frac |-> <<>>]
IntNum(n) == Num(FALSE, n, <<>>)
Obj(m) == [t |-> "object", m |-> m]
EmptyObj == Obj(<<>>)

\* ToBoolean: what `if (v)`, `!v` and `!!v` see.
Truthy(v) ==
    CASE v.t = "undefined" -> FALSE
      [] v.t = "null" -> FALSE
      [] v.t = "boolean" -> v.b
      [] v.t = "string" -> Len(v.s) > 0
      [] v.t = "number" -> ~v.nan /\ (v.int # 0 \/ v.frac # <<>>)
      [] OTHER -> TRUE

Digits == <<"0", "1", "2", "3", "4", "5", "6", "7", "8", "9">>
IsDigit(c) == \E i \in 1..10 : Digits[i] = c
DigitVal(c) == (CHOOSE i \in 1..10 : Digits[i] = c) - 1

Lower == <<"a", "b", "c", "d", "e", "f", "g", "h", "i", "j", "k", "l", "m",
           "n", "o", "p", "q", "r", "s", "t", "u", "v", "w", "x", "y", "z">>
Upper == <<"A", "B", "C", "D", "E", "F", "G", "H", "I", "J", "K", "L", "M",
           "N", "O", "P", "Q", "R", "S", "T", "U", "V", "W", "X", "Y", "Z">>
IsLower(c) == \E i \in 1..26 : Lower[i] = c
\* String.prototype.toUpperCase on one character
toUpperCase(c) == IF IsLower(c) THEN Upper[CHOOSE i \in 1..26 : Lower[i] = c] ELSE c

Tail2(s) == SubSeq(s, 3, Len(s))

RECURSIVE DigitPrefix(_)
\* the longest prefix of s made of decimal digits
DigitPrefix(s) ==
    IF s # <<>> /\ IsDigit(Head(s)) THEN <<Head(s)>> \o DigitPrefix(Tail(s)) ELSE <<>>

RECURSIVE DigitsToNat(_, _)
DigitsToNat(ds, acc) ==
    IF ds = <<>> THEN acc ELSE DigitsToNat(Tail(ds), 10 * acc + DigitVal(Head(ds)))

RECURSIVE StripZeros(_)
\* a fraction without its trailing zeros: 2.50 and 2.5 are the same number
StripZeros(ds) ==
    IF ds # <<>> /\ ds[Len(ds)] = "0" THEN StripZeros(SubSeq(ds, 1, Len(ds) - 1)) ELSE ds

RECURSIVE NatToChars(_)
NatToChars(n) ==
    IF n < 10 THEN <<Digits[n + 1]>> ELSE NatToChars(n \div 10) \o <<Digits[(n % 10) + 1]>>

\* JSToString, as used by string concatenation and by parseFloat's argument
JSToString(v) ==
    CASE v.t = "undefined" -> <<"u", "n", "d", "e", "f", "i", "n", "e", "d">>
      [] v.t = "null" -> <<"n", "u", "l", "l">>
      [] v.t = "boolean" -> IF v.b THEN <<"t", "r", "u", "e">> ELSE <<"f", "a", "l", "s", "e">>
      [] v.t = "string" -> v.s
      [] v.t = "number" ->
            IF v.nan THEN <<"N", "a", "N">>
            ELSE (IF v.neg /\ (v.int # 0 \/ v.frac # <<>>) THEN <<"-">> ELSE <<>>)
                 \o NatToChars(v.int)
                 \o (IF v.frac = <<>> THEN <<>> ELSE <<".">> \o v.frac)
      [] OTHER -> <<"[", "o", "b", "j", "e", "c", "t", " ", "O", "b", "j", "e", "c", "t", "]">>

RECURSIVE SkipSpaces(_)
SkipSpaces(s) == IF s # <<>> /\ Head(s) = " " THEN SkipSpaces(Tail(s)) ELSE s

\* parseInt in place of parseFloat: the fraction is cut off
ParseIntChars(str) ==
    LET s0 == SkipSpaces(str)
        signed == s0 # <<>> /\ Head(s0) \in {"-", "+"}
        neg == s0 # <<>> /\ Head(s0) = "-"
        s1 == IF signed THEN Tail(s0) ELSE s0
        ip == DigitPrefix(s1)
    IN  IF ip = <<>> THEN NaN ELSE Num(neg, DigitsToNat(ip, 0), <<>>)

\* parseFloat on a string: the longest prefix that is a decimal literal
\* (sign, digits, fraction), NaN when there is none.  Exponents and
\* "Infinity" are outside the explored inputs.
ParseFloatChars(str) ==
    LET s0 == SkipSpaces(str)
        signed == s0 # <<>> /\ Head(s0) \in {"-", "+"}
        neg == s0 # <<>> /\ Head(s0) = "-"
        s1 == IF signed THEN Tail(s0) ELSE s0
        ip == DigitPrefix(s1)
        s2 == SubSeq(s1, Len(ip) + 1, Len(s1))
        fp == IF s2 # <<>> /\ Head(s2) = "." THEN DigitPrefix(Tail(s2)) ELSE <<>>
    IN  IF ip = <<>> /\ fp = <<>> THEN NaN
        ELSE Num(neg, DigitsToNat(ip, 0), StripZeros(fp))

\* parseFloat(v): the argument is converted to a string first
parseFloat(v) == ParseFloatChars(JSToString(v))

\* Number.isInteger
IsInteger(n) == n.t = "number" /\ ~n.nan /\ n.frac = <<>>
\* n < 0 on numbers (false for NaN and for -0)
LessThanZero(n) == ~n.nan /\ n.neg /\ (n.int # 0 \/ n.frac # <<>>)

\* The JSON number grammar without exponent: -?(0|[1-9][0-9]*)(\.[0-9]+)?
IsJSONNumber(s) ==
    LET s1 == IF s # <<>> /\ Head(s) = "-" THEN Tail(s) ELSE s
        ip == DigitPrefix(s1)
        s2 == SubSeq(s1, Len(ip) + 1, Len(s1))
        fp == IF s2 # <<>> /\ Head(s2) = "." THEN DigitPrefix(Tail(s2)) ELSE <<>>
    IN  /\ ip # <<>>
        /\ (Len(ip) > 1 => Head(ip) # "0")
        /\ \/ s2 = <<>>
           \/ Head(s2) = "." /\ fp # <<>> /\ Len(s2) = 1 + Len(fp)

\* JSON.parse on the scalar texts of the explored inputs (no quotes,
\* brackets, braces, white space or exponents): ok = FALSE is a SyntaxError.
JSONParse(s) ==
    CASE s = <<"t", "r", "u", "e">> -> [ok |-> TRUE, v |-> Bool(TRUE)]
      [] s = <<"f", "a", "l", "s", "e">> -> [ok |-> TRUE, v |-> Bool(FALSE)]
      [] s = <<"n", "u", "l", "l">> -> [ok |-> TRUE, v |-> Null]
      [] IsJSONNumber(s) -> [ok |-> TRUE, v |-> ParseFloatChars(s)]
      [] OTHER -> [ok |-> FALSE, v |-> Undef]

\* unstringify: JSON.parse, the raw string when that throws
unstringify(val) == LET r == JSONParse(val) IN IF r.ok THEN r.v ELSE Str(val)

Arr(a) == [t |-> "array", a |-> a]

(***************************************************************************)
(* Objects are functions from property names to values.                    *)
(***************************************************************************)
\* o[k]: a missing property reads as undefined
Get(o, k) == IF k \in DOMAIN o THEN o[k] ELSE Undef
\* { ...a, ...b }
Spread(a, b) == [k \in (DOMAIN a) \cup (DOMAIN b) |-> IF k \in DOMAIN b THEN b[k] ELSE a[k]]

RECURSIVE fromEntries(_)
\* Object.fromEntries: a later entry with the same key replaces an earlier one
fromEntries(entries) ==
    IF entries = <<>> THEN <<>>
    ELSE LET last == entries[Len(entries)]
         IN  Spread(fromEntries(SubSeq(entries, 1, Len(entries) - 1)), (last[1] :> last[2]))

(***************************************************************************)
(* The flags declared by initProgram whose option key is read by           *)
(* parserArgs: the name of the long flag and the key under which           *)
(* program.opts() holds its value.                                         *)
(***************************************************************************)
FlagSchema == {
    [flag |-> <<"f", "i", "l", "e", "n", "a", "m", "e">>, key |-> <<"f", "i", "l", "e", "n", "a", "m", "e">>],
    [flag |-> <<"c", "o", "n", "f", "i", "g", "-", "f", "i", "l", "e">>, key |-> <<"c", "o", "n", "f", "i", "g", "F", "i", "l", "e">>],
    [flag |-> <<"c", "l", "i", "-", "c", "o", "n", "f", "i", "g", "-", "f", "i", "l", "e">>, key |-> <<"c", "l", "i", "C", "o", "n", "f", "i", "g", "F", "i", "l", "e">>],
    [flag |-> <<"n", "o", "-", "s", "w", "c", "r", "c">>, key |-> <<"s", "w", "c", "r", "c">>],
    [flag |-> <<"d", "e", "l", "e", "t", "e", "-", "d", "i", "r", "-", "o", "n", "-", "s", "t", "a", "r", "t">>, key |-> <<"d", "e", "l", "e", "t", "e", "D", "i", "r", "O", "n", "S", "t", "a", "r", "t">>],
    [flag |-> <<"i", "g", "n", "o", "r", "e">>, key |-> <<"i", "g", "n", "o", "r", "e">>],
    [flag |-> <<"o", "n", "l", "y">>, key |-> <<"o", "n", "l", "y">>],
    [flag |-> <<"w", "a", "t", "c", "h">>, key |-> <<"w", "a", "t", "c", "h">>],
    [flag |-> <<"q", "u", "i", "e", "t">>, key |-> <<"q", "u", "i", "e", "t">>],
    [flag |-> <<"s", "o", "u", "r", "c", "e", "-", "m", "a", "p", "s">>, key |-> <<"s", "o", "u", "r", "c", "e", "M", "a", "p", "s">>],
    [flag |-> <<"s", "o", "u", "r", "c", "e", "-", "m", "a", "p", "-", "t", "a", "r", "g", "e", "t">>, key |-> <<"s", "o", "u", "r", "c", "e", "M", "a", "p", "T", "a", "r", "g", "e", "t">>],
    [flag |-> <<"s", "o", "u", "r", "c", "e", "-", "f", "i", "l", "e", "-", "n", "a", "m", "e">>, key |-> <<"s", "o", "u", "r", "c", "e", "F", "i", "l", "e", "N", "a", "m", "e">>],
    [flag |-> <<"s", "o", "u", "r", "c", "e", "-", "r", "o", "o", "t">>, key |-> <<"s", "o", "u", "r", "c", "e", "R", "o", "o", "t">>],
    [flag |-> <<"o", "u", "t", "-", "f", "i", "l", "e">>, key |-> <<"o", "u", "t", "F", "i", "l", "e">>],
    [flag |-> <<"o", "u", "t", "-", "d", "i", "r">>, key |-> <<"o", "u", "t", "D", "i", "r">>],
    [flag |-> <<"o", "u", "t", "-", "f", "i", "l", "e", "-", "e", "x", "t", "e", "n", "s", "i", "o", "n">>, key |-> <<"o", "u", "t", "F", "i", "l", "e", "E", "x", "t", "e", "n", "s", "i", "o", "n">>],
    [flag |-> <<"c", "o", "p", "y", "-", "f", "i", "l", "e", "s">>, key |-> <<"c", "o", "p", "y", "F", "i", "l", "e", "s">>],
    [flag |-> <<"s", "t", "r", "i", "p", "-", "l", "e", "a", "d", "i", "n", "g", "-", "p", "a", "t", "h", "s">>, key |-> <<"s", "t", "r", "i", "p", "L", "e", "a", "d", "i", "n", "g", "P", "a", "t", "h", "s">>],
    [flag |-> <<"i", "n", "c", "l", "u", "d", "e", "-", "d", "o", "t", "f", "i", "l", "e", "s">>, key |-> <<"i", "n", "c", "l", "u", "d", "e", "D", "o", "t", "f", "i", "l", "e", "s">>],
    [flag |-> <<"c", "o", "n", "f", "i", "g">>, key |-> <<"c", "o", "n", "f", "i", "g">>],
    [flag |-> <<"s", "y", "n", "c">>, key |-> <<"s", "y", "n", "c">>],
    [flag |-> <<"w", "o", "r", "k", "e", "r", "s">>, key |-> <<"w", "o", "r", "k", "e", "r", "s">>],
    [flag |-> <<"e", "x", "t", "e", "n", "s", "i", "o", "n", "s">>, key |-> <<"e", "x", "t", "e", "n", "s", "i", "o", "n", "s">>] }

\* the default values of the schema: --no-swcrc makes swcrc default to true
SchemaDefaults == (<<"s", "w", "c", "r", "c">> :> Bool(TRUE)) @@ (<<"s", "t", "r", "i", "p", "L", "e", "a", "d", "i", "n", "g", "P", "a", "t", "h", "s">> :> Bool(FALSE))
                    @@ (<<"l", "o", "g", "W", "a", "t", "c", "h", "C", "o", "m", "p", "i", "l", "a", "t", "i", "o", "n">> :> Bool(TRUE))

DEFAULT_EXTENSIONS == Arr(<<Str(<<".", "j", "s">>), Str(<<".", "j", "s", "x">>), Str(<<".", "e", "s", "6">>), Str(<<".", "e", "s">>), Str(<<".", "m", "j", "s">>),
                            Str(<<".", "t", "s">>), Str(<<".", "t", "s", "x">>), Str(<<".", "c", "t", "s">>), Str(<<".", "m", "t", "s">>)>>)

(***************************************************************************)
(* loadCLIConfigFile                                                       *)
(***************************************************************************)
\* the replacement without the g flag: the first match only
camelCaseKeyFirstOnly(key) ==
    LET starts == {i \in 1..(Len(key) - 1) : key[i] = "-" /\ (key[i + 1] = "-" \/ IsLower(key[i + 1]))}
    IN  IF starts = {} THEN key
        ELSE LET i == CHOOSE m \in starts : \A n \in starts : m <= n
             IN  SubSeq(key, 1, i - 1) \o <<toUpperCase(key[i + 1])>> \o SubSeq(key, i + 2, Len(key))

RECURSIVE camelCaseKey(_)
\* key.replace(/(-[-a-z])/g, (_, m) => m.substring(1).toUpperCase())
camelCaseKey(key) ==
    IF key = <<>> THEN <<>>
    ELSE IF /\ Head(key) = "-"
            /\ Len(key) >= 2
            /\ (key[2] = "-" \/ IsLower(key[2]))
         THEN <<toUpperCase(key[2])>> \o camelCaseKey(Tail2(key))
         ELSE <<Head(key)>> \o camelCaseKey(Tail(key))

\* Object.entries(configOpts).map(([key, value]) => [camelCaseKey, value])
camelCaseEntries(entries) == [i \in 1..Len(entries) |-> <<camelCaseKey(entries[i][1]), entries[i][2]>>]

\* the options whose value source is "default", and the others
defaultsOf(o, prov) == [k \in (DOMAIN o) \ prov |-> o[k]]
providedOf(o, prov) == [k \in (DOMAIN o) \cap prov |-> o[k]]

\* a two-way overwrite: the file over everything parsed
mergeOptionsTwoWay(o, prov, configOpts) == Spread(o, configOpts)

\* { ...defaults, ...configOpts, ...provided }
mergeOptions(o, prov, configOpts) == Spread(Spread(defaultsOf(o, prov), configOpts), providedOf(o, prov))

Message(text, found) == [msg |-> text, found |-> found]

\* a file that is not well-formed JSON read as an empty configuration
loadCLIConfigFileLenient(o, prov, path, f) ==
    IF path.t # "string" \/ f.status = "unreadable"
    THEN [ok |-> FALSE, opts |-> o,
          message |-> Message("Cannot read CLI config file", JSToString(path))]
    ELSE IF f.status = "null"
    THEN [ok |-> FALSE, opts |-> o,
          message |-> Message("Cannot convert undefined or null to object", <<>>)]
    ELSE [ok |-> TRUE,
          opts |-> mergeOptions(o, prov, fromEntries(camelCaseEntries(f.entries))),
          message |-> Message("", <<>>)]

\* The outcome of loadCLIConfigFile(program, opts, path) on the file
\* system f: the merged options, or the message of the error thrown.
\* resolve() of a path that is not a string throws inside the first try.
loadCLIConfigFile(o, prov, path, f) ==
    IF path.t # "string" \/ f.status = "unreadable"
    THEN [ok |-> FALSE, opts |-> o,
          message |-> Message("Cannot read CLI config file", JSToString(path))]
    ELSE IF f.status = "malformed"
    THEN [ok |-> FALSE, opts |-> o,
          message |-> Message("CLI config file is not a well-formed JSON file", JSToString(path))]
    ELSE IF f.status = "null"
    THEN [ok |-> FALSE, opts |-> o,
          message |-> Message("Cannot convert undefined or null to object", <<>>)]
    ELSE [ok |-> TRUE,
          opts |-> mergeOptions(o, prov, fromEntries(camelCaseEntries(f.entries))),
          message |-> Message("", <<>>)]

(***************************************************************************)
(* The validation rules of parserArgs                                      *)
(***************************************************************************)
ErrOutDirFilenames == Message("--out-dir requires filenames", <<>>)
ErrOutFileOutDir == Message("--out-file and --out-dir cannot be used together", <<>>)
ErrWatchOutput == Message("--watch requires --out-file or --out-dir", <<>>)
ErrWatchFilenames == Message("--watch requires filenames", <<>>)
ErrStdin == Message("stdin compilation requires either -f/--filename [filename] or --no-swcrc", <<>>)
ErrWorkers(raw) == Message("--workers must be a positive integer (found )", JSToString(raw))

If(c, e) == IF c THEN <<e>> ELSE <<>>

\* opts.workers != null
workersSupplied(o) == Get(o, <<"w", "o", "r", "k", "e", "r", "s">>).t \notin {"undefined", "null"}

\* let workers = parseFloat(opts.workers), undefined when not supplied
workersOf(o) == IF workersSupplied(o) THEN parseFloat(Get(o, <<"w", "o", "r", "k", "e", "r", "s">>)) ELSE Undef

workersInvalid(o) == ~IsInteger(workersOf(o)) \/ LessThanZero(workersOf(o))

\* the filename test by truthiness instead of typeof
stdinAmbiguousTruthy(o, files) ==
    /\ ~Truthy(Get(o, <<"o", "u", "t", "D", "i", "r">>))
    /\ Len(files) = 0
    /\ ~Truthy(Get(o, <<"f", "i", "l", "e", "n", "a", "m", "e">>))
    /\ Get(o, <<"s", "w", "c", "r", "c">>) # Bool(FALSE)

stdinAmbiguous(o, files) ==
    /\ ~Truthy(Get(o, <<"o", "u", "t", "D", "i", "r">>))
    /\ Len(files) = 0
    /\ Get(o, <<"f", "i", "l", "e", "n", "a", "m", "e">>).t # "string"
    /\ Get(o, <<"s", "w", "c", "r", "c">>) # Bool(FALSE)

\* the rule checks as an else-if chain: the first violated rule only
validateFailFast(o, files) ==
    IF Truthy(Get(o, <<"o", "u", "t", "D", "i", "r">>)) /\ Len(files) = 0 THEN <<ErrOutDirFilenames>>
    ELSE IF Truthy(Get(o, <<"o", "u", "t", "F", "i", "l", "e">>)) /\ Truthy(Get(o, <<"o", "u", "t", "D", "i", "r">>)) THEN <<ErrOutFileOutDir>>
    ELSE IF Truthy(Get(o, <<"w", "a", "t", "c", "h">>)) /\ ~Truthy(Get(o, <<"o", "u", "t", "F", "i", "l", "e">>)) /\ ~Truthy(Get(o, <<"o", "u", "t", "D", "i", "r">>))
    THEN <<ErrWatchOutput>>
    ELSE IF Truthy(Get(o, <<"w", "a", "t", "c", "h">>)) /\ Len(files) = 0 THEN <<ErrWatchFilenames>>
    ELSE IF stdinAmbiguous(o, files) THEN <<ErrStdin>>
    ELSE If(workersSupplied(o) /\ workersInvalid(o), ErrWorkers(Get(o, <<"w", "o", "r", "k", "e", "r", "s">>)))

\* the errors array at the call of verifyArgsErrors
validate(o, files) ==
       If(Truthy(Get(o, <<"o", "u", "t", "D", "i", "r">>)) /\ Len(files) = 0, ErrOutDirFilenames)
    \o If(Truthy(Get(o, <<"o", "u", "t", "F", "i", "l", "e">>)) /\ Truthy(Get(o, <<"o", "u", "t", "D", "i", "r">>)), ErrOutFileOutDir)
    \o If(Truthy(Get(o, <<"w", "a", "t", "c", "h">>)) /\ ~Truthy(Get(o, <<"o", "u", "t", "F", "i", "l", "e">>)) /\ ~Truthy(Get(o, <<"o", "u", "t", "D", "i", "r">>)),
          ErrWatchOutput)
    \o If(Truthy(Get(o, <<"w", "a", "t", "c", "h">>)) /\ Len(files) = 0, ErrWatchFilenames)
    \o If(stdinAmbiguous(o, files), ErrStdin)
    \o If(workersSupplied(o) /\ workersInvalid(o), ErrWorkers(Get(o, <<"w", "o", "r", "k", "e", "r", "s">>)))

(***************************************************************************)
(* Override directives (-C key[=value])                                    *)
(***************************************************************************)
RECURSIVE indexOf(_, _)
\* String.prototype.indexOf of one character: 0-based, -1 when absent
indexOf(s, c) ==
    IF s = <<>> THEN -1
    ELSE IF Head(s) = c THEN 0
    ELSE LET i == indexOf(Tail(s), c) IN IF i = -1 THEN -1 ELSE 1 + i

RECURSIVE split(_, _)
\* String.prototype.split on one character; "".split(".") is [""]
split(s, c) ==
    LET i == indexOf(s, c)
    IN  IF i = -1 THEN <<s>> ELSE <<SubSeq(s, 1, i)>> \o split(SubSeq(s, i + 2, Len(s)), c)

\* key = cfg or cfg.substring(0, i)
directiveKey(cfg) ==
    LET i == indexOf(cfg, "=") IN IF i = -1 THEN cfg ELSE SubSeq(cfg, 1, i)
\* value = true or unstringify(cfg.substring(i + 1))
directiveValue(cfg) ==
    LET i == indexOf(cfg, "=")
    IN  IF i = -1 THEN Bool(TRUE) ELSE unstringify(SubSeq(cfg, i + 2, Len(cfg)))

RECURSIVE setPathKeepExisting(_, _, _)
\* the loop with an assignment that does not overwrite
setPathKeepExisting(options, keyParts, value) ==
    IF options.t # "object" THEN [ok |-> FALSE, v |-> options]
    ELSE IF Len(keyParts) = 1
    THEN [ok |-> TRUE,
          v |-> IF Get(options.m, Head(keyParts)) # Undef THEN options
                ELSE Obj(Spread(options.m, (Head(keyParts) :> value)))]
    ELSE LET cur == Get(options.m, Head(keyParts))
             child == IF cur = Undef THEN EmptyObj ELSE cur
             r == setPathKeepExisting(child, Tail(keyParts), value)
         IN  IF r.ok
             THEN [ok |-> TRUE, v |-> Obj(Spread(options.m, (Head(keyParts) :> r.v)))]
             ELSE [ok |-> FALSE, v |-> options]

RECURSIVE setPath(_, _, _)
\* The loop over keyParts, started at the value `options`.  The module is
\* strict code: reading a property of null throws, and so does creating or
\* assigning a property on a boolean, number or string, so every descent
\* into a value that is not an object ends in a TypeError (ok = FALSE).
\* Property names inherited from Object.prototype are outside the inputs.
setPath(options, keyParts, value) ==
    IF options.t # "object" THEN [ok |-> FALSE, v |-> options]
    ELSE IF Len(keyParts) = 1
    THEN [ok |-> TRUE, v |-> Obj(Spread(options.m, (Head(keyParts) :> value)))]
    ELSE LET cur == Get(options.m, Head(keyParts))
             child == IF cur = Undef THEN EmptyObj ELSE cur
             r == setPath(child, Tail(keyParts), value)
         IN  IF r.ok
             THEN [ok |-> TRUE, v |-> Obj(Spread(options.m, (Head(keyParts) :> r.v)))]
             ELSE [ok |-> FALSE, v |-> options]

\* one iteration of `for (const cfg of opts.config)`
applyDirective(swc, cfg) == setPath(swc, split(directiveKey(cfg), "."), directiveValue(cfg))

\* const swcOptions: Options = { jsc: ..., sourceFileName: ..., ... }
initialSwcOptions(o) ==
    LET base == (<<"j", "s", "c">> :> Obj((<<"p", "a", "r", "s", "e", "r">> :> Undef) @@ (<<"t", "r", "a", "n", "s", "f", "o", "r", "m">> :> EmptyObj)))
                @@ (<<"s", "o", "u", "r", "c", "e", "F", "i", "l", "e", "N", "a", "m", "e">> :> Get(o, <<"s", "o", "u", "r", "c", "e", "F", "i", "l", "e", "N", "a", "m", "e">>))
                @@ (<<"s", "o", "u", "r", "c", "e", "R", "o", "o", "t">> :> Get(o, <<"s", "o", "u", "r", "c", "e", "R", "o", "o", "t">>))
                @@ (<<"c", "o", "n", "f", "i", "g", "F", "i", "l", "e">> :> Get(o, <<"c", "o", "n", "f", "i", "g", "F", "i", "l", "e">>))
                @@ (<<"s", "w", "c", "r", "c">> :> Get(o, <<"s", "w", "c", "r", "c">>))
    IN  Obj(IF Get(o, <<"s", "o", "u", "r", "c", "e", "M", "a", "p", "s">>) # Undef
            THEN base @@ (<<"s", "o", "u", "r", "c", "e", "M", "a", "p", "s">> :> Get(o, <<"s", "o", "u", "r", "c", "e", "M", "a", "p", "s">>))
            ELSE base)

\* x || d
OrElse(v, d) == IF Truthy(v) THEN v ELSE d

\* const cliOptions: CliOptions = { ... }
assembleCliOptions(o, files, w) ==
    [outDir |-> Get(o, <<"o", "u", "t", "D", "i", "r">>),
     outFile |-> Get(o, <<"o", "u", "t", "F", "i", "l", "e">>),
     stripLeadingPaths |-> Truthy(Get(o, <<"s", "t", "r", "i", "p", "L", "e", "a", "d", "i", "n", "g", "P", "a", "t", "h", "s">>)),
     filename |-> Get(o, <<"f", "i", "l", "e", "n", "a", "m", "e">>),
     filenames |-> files,
     sync |-> Truthy(Get(o, <<"s", "y", "n", "c">>)),
     workers |-> w,
     sourceMapTarget |-> Get(o, <<"s", "o", "u", "r", "c", "e", "M", "a", "p", "T", "a", "r", "g", "e", "t">>),
     extensions |-> OrElse(Get(o, <<"e", "x", "t", "e", "n", "s", "i", "o", "n", "s">>), DEFAULT_EXTENSIONS),
     watch |-> Truthy(Get(o, <<"w", "a", "t", "c", "h">>)),
     copyFiles |-> Truthy(Get(o, <<"c", "o", "p", "y", "F", "i", "l", "e", "s">>)),
     outFileExtension |-> Get(o, <<"o", "u", "t", "F", "i", "l", "e", "E", "x", "t", "e", "n", "s", "i", "o", "n">>),
     includeDotfiles |-> Truthy(Get(o, <<"i", "n", "c", "l", "u", "d", "e", "D", "o", "t", "f", "i", "l", "e", "s">>)),
     deleteDirOnStart |-> Truthy(Get(o, <<"d", "e", "l", "e", "t", "e", "D", "i", "r", "O", "n", "S", "t", "a", "r", "t">>)),
     quiet |-> Truthy(Get(o, <<"q", "u", "i", "e", "t">>)),
     only |-> OrElse(Get(o, <<"o", "n", "l", "y">>), Arr(<<>>)),
     ignore |-> OrElse(Get(o, <<"i", "g", "n", "o", "r", "e">>), Arr(<<>>))]

(***************************************************************************)
(* The explored invocations: what program.parse leaves behind (the values  *)
(* given on the command line, the positional arguments, the -C list) and   *)
(* the file the CLI configuration is read from.                            *)
(***************************************************************************)
Absent == [t |-> "absent"]
\* the options given on the command line, from a choice per key
Given(choice) == [k \in {k \in DOMAIN choice : choice[k] # Absent} |-> choice[k]]

RECURSIVE SeqsUpTo(_, _)
\* the sequences over S of length at most n
SeqsUpTo(S, n) ==
    IF n = 0 THEN {<<>>}
    ELSE SeqsUpTo(S, n - 1) \cup {Append(q, e) : q \in {r \in SeqsUpTo(S, n - 1) : Len(r) = n - 1}, e \in S}

FileLists == SeqsUpTo({Str(<<"a", ".", "j", "s">>)}, MaxFiles)
NoFile == [status |-> "unreadable", entries |-> <<>>]
Invocation(explicit, files, directives, file) ==
    [explicit |-> explicit, files |-> files, config |-> directives, fs |-> file]

\* flag combinations for the validation rules, without a configuration file
ValidationInputs ==
    { Invocation(Given((<<"o", "u", "t", "D", "i", "r">> :> od) @@ (<<"o", "u", "t", "F", "i", "l", "e">> :> of) @@ (<<"w", "a", "t", "c", "h">> :> w)
                       @@ (<<"f", "i", "l", "e", "n", "a", "m", "e">> :> fn) @@ (<<"s", "w", "c", "r", "c">> :> rc) @@ (<<"w", "o", "r", "k", "e", "r", "s">> :> wk)),
                 files, cs, NoFile) :
        od \in {Absent, Bool(TRUE), Str(<<"l", "i", "b">>), Str(<<>>)},
        of \in {Absent, Str(<<"o", ".", "j", "s">>)},
        w \in {Absent, Bool(TRUE)},
        fn \in {Absent, Bool(TRUE), Str(<<"f", ".", "j", "s">>)},
        rc \in {Absent, Bool(FALSE)},
        wk \in {Absent, Str(<<"4">>), Str(<<"2", ".", "5">>)},
        files \in FileLists,
        cs \in {<<>>, <<<<"a", "=", "1">>>>} }

\* raw values of --workers
WorkerRaws == { <<"4">>, <<"2", ".", "5">>, <<"0">>, <<"-", "1">>, <<"-", "0">>, <<"1", "2">>, <<"4", ".", "0">>, <<"4", ".">>, <<".", "5">>, <<"+", "3">>,
                <<"x">>, <<"4", "x">>, <<"-">>, <<>>, <<"-", "2", ".", "5">> }
WorkerInputs ==
    { Invocation((<<"w", "o", "r", "k", "e", "r", "s">> :> wk), files, <<>>, NoFile) :
        wk \in {Bool(TRUE)} \cup {Str(r) : r \in WorkerRaws},
        files \in FileLists }

\* the top-level entries of the explored configuration files
ConfigEntries == {
    <<<<"o", "u", "t", "-", "d", "i", "r">>, Str(<<"d", "i", "s", "t">>)>>, <<<<"o", "u", "t", "-", "d", "i", "r">>, Bool(FALSE)>>, <<<<"o", "u", "t", "D", "i", "r">>, Str(<<"d">>)>>,
    <<<<"o", "u", "t", "-", "f", "i", "l", "e">>, Str(<<"d", "i", "s", "t">>)>>,
    <<<<"w", "a", "t", "c", "h">>, Bool(TRUE)>>, <<<<"w", "a", "t", "c", "h">>, Null>>,
    <<<<"f", "i", "l", "e", "n", "a", "m", "e">>, Str(<<"d", "i", "s", "t">>)>>, <<<<"f", "i", "l", "e", "n", "a", "m", "e">>, Bool(TRUE)>>,
    <<<<"s", "w", "c", "r", "c">>, Bool(FALSE)>>, <<<<"s", "w", "c", "r", "c">>, Null>>,
    <<<<"n", "o", "-", "s", "w", "c", "r", "c">>, Bool(TRUE)>>, <<<<"n", "o", "-", "s", "w", "c", "r", "c">>, Bool(FALSE)>>,
    <<<<"w", "o", "r", "k", "e", "r", "s">>, IntNum(4)>>, <<<<"w", "o", "r", "k", "e", "r", "s">>, Str(<<"d", "i", "s", "t">>)>>, <<<<"w", "o", "r", "k", "e", "r", "s">>, Null>>,
    <<<<"s", "t", "r", "i", "p", "-", "l", "e", "a", "d", "i", "n", "g", "-", "p", "a", "t", "h", "s">>, Bool(TRUE)>>,
    <<<<"s", "o", "u", "r", "c", "e", "-", "m", "a", "p", "s">>, Str(<<"d", "i", "s", "t">>)>>, <<<<"s", "o", "u", "r", "c", "e", "-", "m", "a", "p", "s">>, Bool(TRUE)>> }
Distinct(q) == \A i, j \in 1..Len(q) : i # j => q[i][1] # q[j][1]
ConfigFiles ==
    { [status |-> st, entries |-> <<>>] : st \in {"unreadable", "malformed", "null"} }
    \cup { [status |-> "object", entries |-> q] :
             q \in {r \in SeqsUpTo(ConfigEntries, MaxConfigKeys) : Distinct(r)} }

\* a configuration file next to flags given on the command line
MergeInputs ==
    { Invocation(Given((<<"c", "l", "i", "C", "o", "n", "f", "i", "g", "F", "i", "l", "e">> :> Str(<<"c">>)) @@ (<<"o", "u", "t", "D", "i", "r">> :> od) @@ (<<"w", "a", "t", "c", "h">> :> w)),
                 files, cs, file) :
        od \in {Absent, Str(<<"l", "i", "b">>)},
        w \in {Absent, Bool(TRUE)},
        files \in {<<>>, <<Str(<<"a", ".", "j", "s">>)>>},
        cs \in {<<>>, <<<<"o", "u", "t", "F", "i", "l", "e", "=", "x">>>>},
        file \in ConfigFiles }
    \cup { Invocation((<<"c", "l", "i", "C", "o", "n", "f", "i", "g", "F", "i", "l", "e">> :> Bool(TRUE)), files, <<>>, NoFile) : files \in FileLists }

\* configuration files with one arbitrary key
KeyAlphabet == {"-", "a", "b", "D", "1"}
KeyInputs ==
    { Invocation((<<"c", "l", "i", "C", "o", "n", "f", "i", "g", "F", "i", "l", "e">> :> Str(<<"c">>)), <<Str(<<"a", ".", "j", "s">>)>>, <<>>,
                 [status |-> "object", entries |-> <<<<key, Str(<<"v">>)>>>>]) :
        key \in SeqsUpTo(KeyAlphabet, MaxKeyLen) }

\* override directives
Directives == { <<"a">>, <<"a", "=", "1">>, <<"a", ".", "b">>, <<"a", ".", "b", "=", "2">>, <<"a", ".", "b", ".", "c", "=", "3">>, <<"b", "=", "x", "=", "y">>, <<"a", "=", "n", "u", "l", "l">>, <<"a", "=", "1", ".", "5">>,
                <<"a", ".", ".", "b", "=", "1">>, <<"s", "w", "c", "r", "c", ".", "x", "=", "1">>, <<"j", "s", "c", ".", "p", "a", "r", "s", "e", "r", ".", "s", "y", "n", "t", "a", "x", "=", "t", "s">>, <<"s", "o", "u", "r", "c", "e", "R", "o", "o", "t", ".", "x">> }
OverrideInputs ==
    { Invocation(<<>>, <<Str(<<"a", ".", "j", "s">>)>>, cs, NoFile) : cs \in SeqsUpTo(Directives, MaxDirectives) }

Inputs == ValidationInputs \cup WorkerInputs \cup MergeInputs \cup KeyInputs \cup OverrideInputs

(***************************************************************************)
(* parserArgs as a state machine, one step per pipeline stage.             *)
(***************************************************************************)
VARIABLES
    programOpts, \* the option values held by program after program.parse
    opts,        \* let opts = program.opts(), then the merged options
    provided,    \* the keys whose getOptionValueSource is not "default"
    filenames,   \* program.args
    config,      \* opts.config, the -C directives in the order given
    fs,          \* the file named by --cli-config-file
    pc,          \* position in parserArgs
    stages,      \* the stages that have run, in order
    errors,      \* the errors array
    workers,     \* let workers
    swcOptions,
    cliOptions,
    applied,     \* number of directives applied so far
    stderr,      \* lines written by console.error
    exitCode     \* argument of process.exit, 0 while none was made

vars == <<programOpts, opts, provided, filenames, config, fs, pc, stages, errors, workers,
          swcOptions, cliOptions, applied, stderr, exitCode>>

Init ==
    \E a \in Inputs :
        /\ programOpts = Spread(SchemaDefaults, a.explicit)
        /\ opts = Spread(SchemaDefaults, a.explicit)
        /\ provided = DOMAIN a.explicit
        /\ filenames = a.files
        /\ config = a.config
        /\ fs = a.fs
        /\ pc = "parsed"
        /\ stages = <<"ArgumentParser">>
        /\ errors = <<>>
        /\ workers = Undef
        /\ swcOptions = Undef
        /\ cliOptions = Undef
        /\ applied = 0
        /\ stderr = <<>>
        /\ exitCode = 0

\* the report without process.exit
verifyArgsErrorsNoExit(errs, next) ==
    /\ stderr' = IF Len(errs) > 0 THEN <<Message("swc:", <<>>)>> \o errs ELSE stderr
    /\ UNCHANGED exitCode
    /\ pc' = next

\* verifyArgsErrors(errs), continuing at `next` when it returns
verifyArgsErrors(errs, next) ==
    IF Len(errs) > 0
    THEN /\ stderr' = <<Message("swc:", <<>>)>> \o errs
         /\ exitCode' = 2
         /\ pc' = "exited"
    ELSE /\ UNCHANGED <<stderr, exitCode>>
         /\ pc' = next

\* if (opts.cliConfigFile) { try { opts = loadCLIConfigFile(...) } catch ... }
ConfigFileMerger ==
    /\ pc = "parsed"
    /\ Truthy(Get(opts, <<"c", "l", "i", "C", "o", "n", "f", "i", "g", "F", "i", "l", "e">>))
    /\ LET r == loadCLIConfigFile(opts, provided, Get(opts, <<"c", "l", "i", "C", "o", "n", "f", "i", "g", "F", "i", "l", "e">>), fs)
       IN  /\ opts' = r.opts
           /\ verifyArgsErrors(IF r.ok THEN <<>> ELSE <<r.message>>, "merged")
    /\ stages' = Append(stages, "ConfigFileMerger")
    /\ UNCHANGED <<programOpts, provided, filenames, config, fs, errors, workers, swcOptions, cliOptions, applied>>

NoConfigFile ==
    /\ pc = "parsed"
    /\ ~Truthy(Get(opts, <<"c", "l", "i", "C", "o", "n", "f", "i", "g", "F", "i", "l", "e">>))
    /\ pc' = "merged"
    /\ UNCHANGED <<programOpts, opts, provided, filenames, config, fs, stages, errors, workers,
                   swcOptions, cliOptions, applied, stderr, exitCode>>

\* the rule checks on the options as parsed, before the merge
ValidatorBeforeMerge ==
    /\ pc = "merged"
    /\ errors' = validate(programOpts, filenames)
    /\ workers' = workersOf(programOpts)
    /\ verifyArgsErrors(errors', "validated")
    /\ stages' = Append(stages, "Validator")
    /\ UNCHANGED <<programOpts, opts, provided, filenames, config, fs, swcOptions, cliOptions, applied>>

\* the rule checks up to verifyArgsErrors(errors)
Validator ==
    /\ pc = "merged"
    /\ errors' = validate(opts, filenames)
    /\ workers' = workersOf(opts)
    /\ verifyArgsErrors(errors', "validated")
    /\ stages' = Append(stages, "Validator")
    /\ UNCHANGED <<programOpts, opts, provided, filenames, config, fs, swcOptions, cliOptions, applied>>

BuildSwcOptions ==
    /\ pc = "validated"
    /\ swcOptions' = initialSwcOptions(opts)
    /\ pc' = "override"
    /\ UNCHANGED <<programOpts, opts, provided, filenames, config, fs, stages, errors, workers,
                   cliOptions, applied, stderr, exitCode>>

\* one iteration of the loop over opts.config; a TypeError leaves parserArgs
OverrideApplier ==
    /\ pc = "override"
    /\ applied < Len(config)
    /\ LET r == applyDirective(swcOptions, config[applied + 1])
       IN  IF r.ok
           THEN /\ swcOptions' = r.v
                /\ applied' = applied + 1
                /\ pc' = "override"
           ELSE /\ UNCHANGED <<swcOptions, applied>>
                /\ pc' = "threw"
    /\ stages' = Append(stages, "OverrideApplier")
    /\ UNCHANGED <<programOpts, opts, provided, filenames, config, fs, errors, workers, cliOptions,
                   stderr, exitCode>>

\* build cliOptions and return { swcOptions, cliOptions }
OutputAssembler ==
    /\ pc = "override"
    /\ applied = Len(config)
    /\ cliOptions' = assembleCliOptions(opts, filenames, workers)
    /\ pc' = "returned"
    /\ stages' = Append(stages, "OutputAssembler")
    /\ UNCHANGED <<programOpts, opts, provided, filenames, config, fs, errors, workers, swcOptions,
                   applied, stderr, exitCode>>

parserArgs ==
    \/ ConfigFileMerger
    \/ NoConfigFile
    \/ Validator
    \/ BuildSwcOptions
    \/ OverrideApplier
    \/ OutputAssembler

Next == parserArgs

Spec == Init /\ [][Next]_vars

TypeOK ==
    /\ pc \in {"parsed", "merged", "validated", "override", "returned", "exited", "threw"}
    /\ exitCode \in {0, 2}
    /\ applied \in 0..Len(config)

(***************************************************************************)
(* Vocabulary of the properties                                            *)
(***************************************************************************)
Range(q) == {q[i] : i \in 1..Len(q)}
Ran(stage) == stage \in Range(stages)
\* the configuration file was loaded and merged
Merged == Ran("ConfigFileMerger") /\ pc # "exited"

\* the entries of the configuration file whose normalized key is k
EntriesFor(k) == {i \in 1..Len(fs.entries) : camelCaseKey(fs.entries[i][1]) = k}
ConfigFileHas(k) == EntriesFor(k) # {}
ConfigFileValue(k) == fs.entries[CHOOSE i \in EntriesFor(k) : \A j \in EntriesFor(k) : j <= i][2]
ConfigFileKeys == {camelCaseKey(fs.entries[i][1]) : i \in 1..Len(fs.entries)}

\* explicit flag, else configuration file, else schema default, else nothing
Resolved(k) ==
    IF k \in provided THEN programOpts[k]
    ELSE IF ConfigFileHas(k) THEN ConfigFileValue(k)
    ELSE IF k \in DOMAIN SchemaDefaults THEN SchemaDefaults[k]
    ELSE Undef

\* C1: after a configuration file is loaded, every option key holds the
\* value given on the command line if there is one, else the value of the
\* (normalized) configuration file if it has the key, else the schema
\* default, and the merged set has no other key.
ThreeWayMerge ==
    Merged =>
        /\ DOMAIN opts = provided \cup ConfigFileKeys \cup DOMAIN SchemaDefaults
        /\ \A k \in DOMAIN opts : opts[k] = Resolved(k)

\* a flag given on the command line and a different value for its key in
\* the configuration file
ThreeWayMergeWitness ==
    /\ Merged
    /\ \E k \in provided : ConfigFileHas(k) /\ ConfigFileValue(k) # programOpts[k]
                           /\ opts[k] = programOpts[k]

(***************************************************************************)
(* The rules, as the option set and the inputs violate them.               *)
(***************************************************************************)
IsSet(k) == Truthy(Get(opts, k))
NoInputs == Len(filenames) = 0
WorkerCountInvalid ==
    /\ Get(opts, <<"w", "o", "r", "k", "e", "r", "s">>) \notin {Undef, Null}
    /\ LET n == parseFloat(Get(opts, <<"w", "o", "r", "k", "e", "r", "s">>))
       IN  n.nan \/ n.frac # <<>> \/ (n.neg /\ n.int > 0)
ViolatedRules ==
    {r \in {"outDirInputs", "outFileOutDir", "watchOutput", "watchInputs", "stdin", "workers"} :
        CASE r = "outDirInputs" -> IsSet(<<"o", "u", "t", "D", "i", "r">>) /\ NoInputs
          [] r = "outFileOutDir" -> IsSet(<<"o", "u", "t", "F", "i", "l", "e">>) /\ IsSet(<<"o", "u", "t", "D", "i", "r">>)
          [] r = "watchOutput" -> IsSet(<<"w", "a", "t", "c", "h">>) /\ ~IsSet(<<"o", "u", "t", "F", "i", "l", "e">>) /\ ~IsSet(<<"o", "u", "t", "D", "i", "r">>)
          [] r = "watchInputs" -> IsSet(<<"w", "a", "t", "c", "h">>) /\ NoInputs
          [] r = "stdin" -> /\ ~IsSet(<<"o", "u", "t", "D", "i", "r">>) /\ NoInputs
                            /\ Get(opts, <<"f", "i", "l", "e", "n", "a", "m", "e">>).t # "string"
                            /\ Get(opts, <<"s", "w", "c", "r", "c">>) # Bool(FALSE)
          [] r = "workers" -> WorkerCountInvalid}
RuleOf(m) ==
    CASE m = ErrOutDirFilenames -> "outDirInputs"
      [] m = ErrOutFileOutDir -> "outFileOutDir"
      [] m = ErrWatchOutput -> "watchOutput"
      [] m = ErrWatchFilenames -> "watchInputs"
      [] m = ErrStdin -> "stdin"
      [] OTHER -> "workers"

\* C2: the validator reports one message for each violated rule and none
\* for a rule that holds; a non-empty report is printed under the banner,
\* the process exits with status 2 and nothing is returned.
AllViolationsReported ==
    Ran("Validator") =>
        /\ {RuleOf(errors[i]) : i \in 1..Len(errors)} = ViolatedRules
        /\ Len(errors) = Cardinality(ViolatedRules)
        /\ ViolatedRules # {} =>
              /\ pc = "exited" /\ exitCode = 2
              /\ stderr = <<Message("swc:", <<>>)>> \o errors
              /\ swcOptions = Undef /\ cliOptions = Undef
        /\ ViolatedRules = {} => pc # "exited" /\ exitCode = 0 /\ stderr = <<>>

\* --out-file with --out-dir and --watch without inputs: three rules at once
AllViolationsReportedWitness ==
    /\ pc = "exited"
    /\ Ran("Validator")
    /\ {"outFileOutDir", "watchInputs", "outDirInputs"} \subseteq ViolatedRules
    /\ {ErrOutFileOutDir, ErrWatchFilenames, ErrOutDirFilenames} \subseteq Range(errors)

StageRank(st) ==
    CASE st = "ArgumentParser" -> 1
      [] st = "ConfigFileMerger" -> 2
      [] st = "Validator" -> 3
      [] st = "OverrideApplier" -> 4
      [] OTHER -> 5

\* C3 as claimed: once the validator has run, every override directive has
\* been applied.
ValidatorRunsAfterOverrides ==
    Ran("Validator") => applied = Len(config)

\* C3: the stages run in the order argument parser, configuration file
\* merger, validator, override applier, output assembler; an override
\* directive is applied only after the validator has run and found no
\* error, and a validation error ends the run with no directive applied.
OverridesRunAfterValidator ==
    /\ \A i, j \in 1..Len(stages) : i < j => StageRank(stages[i]) <= StageRank(stages[j])
    /\ (Ran("OverrideApplier") \/ applied > 0 \/ Ran("OutputAssembler")) =>
          Ran("Validator") /\ errors = <<>> /\ exitCode = 0
    /\ (pc = "exited" /\ errors # <<>>) => applied = 0 /\ ~Ran("OverrideApplier")

\* a run with directives that passed validation and applied them
OverridesRunAfterValidatorWitness ==
    /\ pc = "returned"
    /\ applied = Len(config) /\ applied > 0
    /\ Ran("ConfigFileMerger")

\* C4 as claimed: the stdin error is reported exactly when none of
\* out-dir, inputs and the filename flag is set and --no-swcrc is not given.
StdinErrorIffNothingSet ==
    Ran("Validator") =>
        (ErrStdin \in Range(errors)
            <=> /\ ~IsSet(<<"o", "u", "t", "D", "i", "r">>) /\ NoInputs /\ ~IsSet(<<"f", "i", "l", "e", "n", "a", "m", "e">>)
                /\ Get(opts, <<"s", "w", "c", "r", "c">>) # Bool(FALSE))

\* C4: the stdin error is reported exactly when out-dir is not set, there
\* is no input, the filename option is not a string and swcrc is not false;
\* a run without inputs, filename and out-dir with lookup enabled always
\* fails with it.
StdinErrorIffNoFilenameString ==
    Ran("Validator") =>
        /\ ErrStdin \in Range(errors)
              <=> /\ ~IsSet(<<"o", "u", "t", "D", "i", "r">>) /\ NoInputs
                  /\ Get(opts, <<"f", "i", "l", "e", "n", "a", "m", "e">>).t # "string"
                  /\ Get(opts, <<"s", "w", "c", "r", "c">>) # Bool(FALSE)
        /\ ErrStdin \in Range(errors) => pc = "exited" /\ exitCode = 2
        /\ (/\ NoInputs
            /\ Get(opts, <<"f", "i", "l", "e", "n", "a", "m", "e">>) = Undef
            /\ Get(opts, <<"o", "u", "t", "D", "i", "r">>) = Undef
            /\ Get(opts, <<"s", "w", "c", "r", "c">>) = Bool(TRUE)) => ErrStdin \in Range(stderr)

\* a bare -f: the filename flag is given, and the stdin error is reported
StdinErrorWitness ==
    /\ Ran("Validator")
    /\ <<"f", "i", "l", "e", "n", "a", "m", "e">> \in provided
    /\ Get(opts, <<"f", "i", "l", "e", "n", "a", "m", "e">>) = Bool(TRUE)
    /\ ErrStdin \in Range(stderr)

(***************************************************************************)
(* Override directives, read independently of the code's loop.             *)
(***************************************************************************)
HasEquals(cfg) == \E i \in 1..Len(cfg) : cfg[i] = "="
FirstEquals(cfg) == CHOOSE i \in 1..Len(cfg) : cfg[i] = "=" /\ \A j \in 1..(i - 1) : cfg[j] # "="
KeyText(cfg) == IF HasEquals(cfg) THEN SubSeq(cfg, 1, FirstEquals(cfg) - 1) ELSE cfg
ValueOf(cfg) ==
    IF HasEquals(cfg) THEN unstringify(SubSeq(cfg, FirstEquals(cfg) + 1, Len(cfg))) ELSE Bool(TRUE)

RECURSIVE Join(_)
\* the segments joined with dots
Join(parts) ==
    IF Len(parts) = 1 THEN parts[1] ELSE parts[1] \o <<".">> \o Join(Tail(parts))
\* p is the path of the directive: its segments have no dot and join to the key
IsPathOf(p, cfg) ==
    /\ Len(p) >= 1
    /\ \A i \in 1..Len(p) : "." \notin Range(p[i])
    /\ Join(p) = KeyText(cfg)
PathOf(cfg) == split(directiveKey(cfg), ".")

RECURSIVE Lookup(_, _)
\* the value at a path of a tree, undefined where the path leaves the tree
Lookup(tree, p) ==
    IF p = <<>> THEN tree
    ELSE IF tree.t # "object" THEN Undef
    ELSE Lookup(Get(tree.m, Head(p)), Tail(p))

IsPrefix(p, q) == Len(p) <= Len(q) /\ SubSeq(q, 1, Len(p)) = p
Overlap(p, q) == IsPrefix(p, q) \/ IsPrefix(q, p)

DescendsThroughScalar ==
    /\ applied < Len(config)
    /\ \E n \in 1..(Len(PathOf(config[applied + 1])) - 1) :
          LET v == Lookup(swcOptions, SubSeq(PathOf(config[applied + 1]), 1, n))
          IN  v.t \in {"number", "string", "boolean", "null"}

\* C6: a directive that descends through a value that is not a container
\* ends the run through the diagnostic block with exit status 2: nothing is
\* returned and the directive is not dropped.
OverrideTypeErrorExits2 ==
    (DescendsThroughScalar /\ pc # "override") =>
        exitCode = 2 /\ Len(stderr) >= 2 /\ cliOptions = Undef

\* the values echoed by the worker messages of the report
WorkerMessages == {errors[i].found : i \in {j \in 1..Len(errors) : RuleOf(errors[j]) = "workers"}}

ConfigFileErrorAborts ==
    (/\ pc # "parsed"
     /\ Truthy(Get(programOpts, <<"c", "l", "i", "C", "o", "n", "f", "i", "g", "F", "i", "l", "e">>))
     /\ (fs.status \in {"unreadable", "malformed"} \/ Get(programOpts, <<"c", "l", "i", "C", "o", "n", "f", "i", "g", "F", "i", "l", "e">>).t # "string")) =>
        /\ pc = "exited" /\ exitCode = 2
        /\ Len(stderr) = 2 /\ stderr[1] = Message("swc:", <<>>)
        /\ stderr[2].msg = IF fs.status = "malformed" /\ Get(programOpts, <<"c", "l", "i", "C", "o", "n", "f", "i", "g", "F", "i", "l", "e">>).t = "string"
                           THEN "CLI config file is not a well-formed JSON file"
                           ELSE "Cannot read CLI config file"
        /\ stderr[2].found = JSToString(programOpts[<<"c", "l", "i", "C", "o", "n", "f", "i", "g", "F", "i", "l", "e">>])
        /\ errors = <<>> /\ stages = <<"ArgumentParser", "ConfigFileMerger">>
        /\ opts = programOpts
        /\ applied = 0 /\ swcOptions = Undef /\ cliOptions = Undef /\ workers = Undef

\* a malformed file, with flags that violate a rule and a directive
ConfigFileErrorAbortsWitness ==
    /\ pc = "exited"
    /\ fs.status = "malformed"
    /\ Truthy(Get(programOpts, <<"w", "a", "t", "c", "h">>)) /\ NoInputs /\ config # <<>>
    /\ Len(stderr) = 2

(***************************************************************************)
(* The camel-casing of a key, position by position: a hyphen starts a      *)
(* match when an even number of hyphens precedes it directly and a hyphen  *)
(* or a lowercase letter follows; the hyphen of a match is dropped and the *)
(* character after it is upper-cased.                                      *)
(***************************************************************************)
HyphensBefore(key, i) ==
    CHOOSE n \in 0..(i - 1) :
        /\ \A j \in (i - n)..(i - 1) : key[j] = "-"
        /\ (i - n - 1 = 0 \/ key[i - n - 1] # "-")
MatchStart(key, i) ==
    /\ key[i] = "-"
    /\ i < Len(key)
    /\ (key[i + 1] = "-" \/ IsLower(key[i + 1]))
    /\ HyphensBefore(key, i) % 2 = 0
ExpectedKey(key) ==
    LET kept == SelectSeq([i \in 1..Len(key) |-> i], LAMBDA i : ~MatchStart(key, i))
    IN  [j \in 1..Len(kept) |->
            IF kept[j] > 1 /\ MatchStart(key, kept[j] - 1)
            THEN toUpperCase(key[kept[j]]) ELSE key[kept[j]]]

Negated(f) == Len(f.flag) >= 3 /\ SubSeq(f.flag, 1, 3) = <<"n", "o", "-">>
LastEntryFor(i) == \A j \in 1..Len(fs.entries) :
                      camelCaseKey(fs.entries[j][1]) = camelCaseKey(fs.entries[i][1]) => j <= i

\* C9 as claimed: a configuration file that names any flag of the schema
\* by its hyphenated name gives its value to the option key of that flag
\* when the flag is absent.
FlagNamesNormalizeToOptionKeys ==
    Merged =>
        \A i \in 1..Len(fs.entries) : \A f \in FlagSchema :
            (fs.entries[i][1] = f.flag /\ f.key \notin provided /\ LastEntryFor(i)) =>
                /\ camelCaseKey(f.flag) = f.key
                /\ Get(opts, f.key) = fs.entries[i][2]

\* C9: every top-level key is rewritten, left to right, by dropping each
\* hyphen that is followed by a lowercase letter and upper-casing that
\* letter (two hyphens become one), values are left as they are; for every flag of the schema that is not a negated
\* (--no-) flag the normalized flag name is the option key of the flag, and
\* a configuration file that gives a value under the hyphenated name
\* resolves the key to that value when the flag is absent.
KeyNormalization ==
    /\ \A f \in FlagSchema : ~Negated(f) => camelCaseKey(f.flag) = f.key
    /\ Merged =>
          \A i \in 1..Len(fs.entries) :
              LET raw == fs.entries[i][1]
              IN  /\ camelCaseKey(raw) = ExpectedKey(raw)
                  /\ ("-" \notin Range(raw) => camelCaseKey(raw) = raw)
                  /\ (camelCaseKey(raw) \notin provided /\ LastEntryFor(i))
                        => Get(opts, camelCaseKey(raw)) = fs.entries[i][2]
                  /\ \A f \in FlagSchema :
                        (raw = f.flag /\ ~Negated(f) /\ f.key \notin provided /\ LastEntryFor(i))
                            => Get(opts, f.key) = fs.entries[i][2]

\* a file with "source-maps": the value is under sourceMaps
KeyNormalizationWitness ==
    /\ Merged
    /\ \E i \in 1..Len(fs.entries) :
          /\ fs.entries[i][1] = <<"s", "o", "u", "r", "c", "e", "-", "m", "a", "p", "s">>
          /\ Get(opts, <<"s", "o", "u", "r", "c", "e", "M", "a", "p", "s">>) = fs.entries[i][2]

====
